---- MODULE Spec2Model ----
(***************************************************************************)
(* Model of the Oberheim Matrix 1000 driver (src/Matrix1000.h): the nibble *)
(* codec, the message classifier, the request builders, the bank dump      *)
(* completion test and the global settings decode.                         *)
(***************************************************************************)
EXTENDS Integers, Sequences, FiniteSets, TLC

(***************************************************************************)
(* Bounds of the model                                                     *)
(***************************************************************************)
\* longest raw byte sequence handed to escapeSysex
MaxLen == 2
\* longest arbitrary wire buffer handed to unescapeSysex
MaxWireLen == 3
\* how many resent or foreign messages can turn up during one bank dump
MaxExtra == 1
\* longest payload handed to the classifier
MaxMsgLen == 4
\* how far behind either end of 0..999 the program numbers given to the
\* request builders reach
MaxOver == 30
MaxNameLen == 2

(***************************************************************************)
(* Constants of the program                                                *)
(***************************************************************************)
\* enum MIDI_ID
OBERHEIM == 16
MATRIX6_1000 == 6
\* enum MIDI_COMMAND
SINGLE_PATCH_DATA == 1
REQUEST_DATA == 4
SET_BANK == 10
BANK_UNLOCK == 12
SINGLE_PATCH_TO_EDIT_BUFFER == 13
STORE_EDIT_BUFFER == 14
\* Matrix1000::numberOfBanks, Matrix1000::numberOfPatches
numberOfBanks == 10
numberOfPatches == 100
\* enum REQUEST_TYPE
BANK_AND_MASTER == 0
SINGLE_PATCH == 1
MASTER == 3
EDIT_BUFFER == 4
\* the size of the unescaped global settings block
SettingsBlockSize == 172

(***************************************************************************)
(* Input samples                                                           *)
(***************************************************************************)
\* raw 8 bit bytes: 0x00 0x01 0x41 0x42 0x7F 0x80 0xFF
ByteSamples == {0, 1, 65, 66, 127, 128, 255}
\* wire bytes of received buffers: 0x00 0x01 0x04 0x05 0x41
WireSamples == {0, 1, 4, 5, 65}
\* what a read behind the end of the buffer can yield (unspecified memory)
OobSamples == {0, 7, 247}
\* the bits of a byte
BitPositions == 0..7
\* payload bytes given to the classifier: the header bytes, program numbers
\* 0x00, 0x63 and 0x64, and the command SINGLE_PATCH_TO_EDIT_BUFFER
ClassifyBytes == {OBERHEIM, MATRIX6_1000, SINGLE_PATCH_DATA, 0, 99, 100, SINGLE_PATCH_TO_EDIT_BUFFER}
\* the order in which the device sends the programs of a bank:
\* program number = (first + step * k) % 100, step coprime to 100
DumpSteps == {1, 7, 99}
DumpFirsts == {0, 42}
\* the points of a bank dump (number of programs sent so far) at which a
\* resent or foreign message can turn up
ExtraPoints == {0, 1, 50, 99, 100}

SeqsUpTo(S, n) == UNION {[1..k -> S] : k \in 0..n}

VARIABLES
    programEditBuffer,  \* codec: the raw bytes given to escapeSysex
    sysExData,          \* codec: the wire buffer given to unescapeSysex
    result,             \* codec: what unescapeSysex returned
    flip,               \* codec: <<>> or <<index, bit>> of the bit flipped on the wire
    pc,                 \* codec: "start", "escaped", "received", "unescaped", "unpacked"
    bankDump,           \* bank dump: the messages collected so far
    order,              \* bank dump: <<first, step>>, the order the device sends in
    sent,               \* bank dump: number of programs the device has sent
    extra,              \* bank dump: number of resent or foreign messages so far
    message,            \* classifier: the message under classification
    kinds,              \* classifier: the predicates that hold of message
    call,               \* requests: the last call, [op, arg]
    messages,           \* requests: the messages the last call returned
    asserted,           \* requests: a jassert of the last call failed
    globalSettings_,    \* settings: one value per table row, <<>> while void
    dataFile,           \* settings: the data of the data file loaded last
    settingsArray,      \* settings: what unescapeSysex made of dataFile
    logged,             \* settings: the last load posted the "Ignoring" message
    response,           \* detection: the message given to channelIfValidDeviceResponse
    channelFound,       \* detection: <<>> or <<the MidiChannel returned>>
    patchName,          \* patch: the first 8 bytes of the patch data
    nameArg,            \* patch: the name given to the last setName
    named,              \* patch: setName has been called
    patch,              \* patch file: the patch written, [data, number]
    written,            \* patch file: [op, messages] of the last write
    readBack            \* patch file: [op, found, data, number] of the last read

codecVars == <<programEditBuffer, sysExData, result, flip, pc>>
vars == <<programEditBuffer, sysExData, result, flip, pc,
          bankDump, order, sent, extra, message, kinds,
          call, messages, asserted,
          globalSettings_, dataFile, settingsArray, logged,
          response, channelFound, patchName, nameArg, named,
          patch, written, readBack>>
bankVars == <<bankDump, order, sent, extra>>
classifyVars == <<message, kinds>>
requestVars == <<call, messages, asserted>>
settingsVars == <<globalSettings_, dataFile, settingsArray, logged>>
detectVars == <<response, channelFound>>
patchVars == <<patchName, nameArg, named>>
fileVars == <<patch, written, readBack>>
notCodec == <<bankVars, classifyVars, requestVars, settingsVars, detectVars, patchVars, fileVars>>
notBank == <<codecVars, classifyVars, requestVars, settingsVars, detectVars, patchVars, fileVars>>
notClassify == <<codecVars, bankVars, requestVars, settingsVars, detectVars, patchVars, fileVars>>
notRequest == <<codecVars, bankVars, classifyVars, settingsVars, detectVars, patchVars, fileVars>>
notSettings == <<codecVars, bankVars, classifyVars, requestVars, detectVars, patchVars, fileVars>>
notDetect == <<codecVars, bankVars, classifyVars, requestVars, settingsVars, patchVars, fileVars>>
notPatch == <<codecVars, bankVars, classifyVars, requestVars, settingsVars, detectVars, fileVars>>
notFile == <<codecVars, bankVars, classifyVars, requestVars, settingsVars, detectVars, patchVars>>

codecIdle ==
    /\ programEditBuffer = <<>>
    /\ sysExData = <<>>
    /\ result = <<>>
    /\ flip = <<>>
    /\ pc = "start"

bankIdle ==
    /\ bankDump = <<>>
    /\ order = <<0, 1>>
    /\ sent = 0
    /\ extra = 0

classifyIdle ==
    /\ message = [sysex |-> TRUE, data |-> <<>>]
    /\ kinds = {}

requestIdle ==
    /\ call = [op |-> "none", arg |-> 0]
    /\ messages = <<>>
    /\ asserted = FALSE

detectIdle ==
    /\ response = [sysex |-> TRUE, data |-> <<>>]
    /\ channelFound = <<>>

\* a patch named "BNK0: 00"
patchIdle ==
    /\ patchName = <<66, 78, 75, 48, 58, 32, 48, 48>>
    /\ nameArg = <<>>
    /\ named = FALSE

nothingWritten == [op |-> "none", messages |-> <<>>]
nothingRead == [op |-> "none", found |-> FALSE, data |-> <<>>, number |-> 0 - 1]

fileIdle ==
    /\ patch = [data |-> <<>>, number |-> 0]
    /\ written = nothingWritten
    /\ readBack = nothingRead

\* the table kMatrix1000GlobalSettings, row by row; a field the initializer
\* leaves out is value-initialized (FALSE, 0); lookup is the set of raw
\* values of the row's choice list
kMatrix1000GlobalSettings == <<
    [sysexIndex |-> 34, name |-> "Master Transpose", valueType |-> "Integer", minValue |-> -24, maxValue |-> 24,
     isTwosComplement |-> TRUE, displayOffset |-> 0, lookup |-> {}],
    [sysexIndex |-> 8, name |-> "Master Tune", valueType |-> "Integer", minValue |-> -32, maxValue |-> 32,
     isTwosComplement |-> TRUE, displayOffset |-> 0, lookup |-> {}],
    [sysexIndex |-> 11, name |-> "MIDI Basic Channel", valueType |-> "Integer", minValue |-> 1, maxValue |-> 16,
     isTwosComplement |-> FALSE, displayOffset |-> 1, lookup |-> {}],
    [sysexIndex |-> 12, name |-> "MIDI OMNI Mode Enable", valueType |-> "Bool", minValue |-> 0, maxValue |-> 1,
     isTwosComplement |-> FALSE, displayOffset |-> 0, lookup |-> {}],
    [sysexIndex |-> 13, name |-> "MIDI Controllers enable", valueType |-> "Bool", minValue |-> 0, maxValue |-> 1,
     isTwosComplement |-> FALSE, displayOffset |-> 0, lookup |-> {}],
    [sysexIndex |-> 14, name |-> "MIDI Patch Changes Enable", valueType |-> "Bool", minValue |-> 0, maxValue |-> 1,
     isTwosComplement |-> FALSE, displayOffset |-> 0, lookup |-> {}],
    [sysexIndex |-> 17, name |-> "MIDI Pedal 1 Controller", valueType |-> "Integer", minValue |-> 0, maxValue |-> 121,
     isTwosComplement |-> FALSE, displayOffset |-> 0, lookup |-> {}],
    [sysexIndex |-> 18, name |-> "MIDI Pedal 2 Controller", valueType |-> "Integer", minValue |-> 0, maxValue |-> 121,
     isTwosComplement |-> FALSE, displayOffset |-> 0, lookup |-> {}],
    [sysexIndex |-> 19, name |-> "MIDI Pedal 3 Controller", valueType |-> "Integer", minValue |-> 0, maxValue |-> 121,
     isTwosComplement |-> FALSE, displayOffset |-> 0, lookup |-> {}],
    [sysexIndex |-> 20, name |-> "MIDI Pedal 4 Controller", valueType |-> "Integer", minValue |-> 0, maxValue |-> 121,
     isTwosComplement |-> FALSE, displayOffset |-> 0, lookup |-> {}],
    [sysexIndex |-> 32, name |-> "MIDI Echo Enable", valueType |-> "Bool", minValue |-> 0, maxValue |-> 1,
     isTwosComplement |-> FALSE, displayOffset |-> 0, lookup |-> {}],
    [sysexIndex |-> 35, name |-> "MIDI Mono Mode (Guitar)", valueType |-> "Integer", minValue |-> 0, maxValue |-> 9,
     isTwosComplement |-> FALSE, displayOffset |-> 0, lookup |-> {}],
    [sysexIndex |-> 165, name |-> "Bank Lock Enable", valueType |-> "Bool", minValue |-> 0, maxValue |-> 1,
     isTwosComplement |-> FALSE, displayOffset |-> 0, lookup |-> {}],
    [sysexIndex |-> 4, name |-> "Vibrato Waveform", valueType |-> "Lookup", minValue |-> 0, maxValue |-> 7,
     isTwosComplement |-> FALSE, displayOffset |-> 0, lookup |-> 0..5],
    [sysexIndex |-> 1, name |-> "Vibrato Speed", valueType |-> "Integer", minValue |-> 0, maxValue |-> 63,
     isTwosComplement |-> FALSE, displayOffset |-> 0, lookup |-> {}],
    [sysexIndex |-> 5, name |-> "Vibrato Amplitude", valueType |-> "Integer", minValue |-> 0, maxValue |-> 63,
     isTwosComplement |-> FALSE, displayOffset |-> 0, lookup |-> {}],
    [sysexIndex |-> 2, name |-> "Vibrato Speed Mod Source", valueType |-> "Lookup", minValue |-> 0, maxValue |-> 2,
     isTwosComplement |-> FALSE, displayOffset |-> 0, lookup |-> 0..2],
    [sysexIndex |-> 3, name |-> "Vibrato Speed Mod Amount", valueType |-> "Integer", minValue |-> 0, maxValue |-> 63,
     isTwosComplement |-> FALSE, displayOffset |-> 0, lookup |-> {}],
    [sysexIndex |-> 6, name |-> "Vibrato Amp Mod Source", valueType |-> "Lookup", minValue |-> 0, maxValue |-> 2,
     isTwosComplement |-> FALSE, displayOffset |-> 0, lookup |-> 0..2],
    [sysexIndex |-> 7, name |-> "Vibrato Amp Mod Amount", valueType |-> "Integer", minValue |-> 0, maxValue |-> 63,
     isTwosComplement |-> FALSE, displayOffset |-> 0, lookup |-> {}],
    [sysexIndex |-> 164, name |-> "Bend Range", valueType |-> "Integer", minValue |-> 1, maxValue |-> 24,
     isTwosComplement |-> FALSE, displayOffset |-> 0, lookup |-> {}],
    [sysexIndex |-> 166, name |-> "Number of Units", valueType |-> "Integer", minValue |-> 1, maxValue |-> 6,
     isTwosComplement |-> FALSE, displayOffset |-> 0, lookup |-> {}],
    [sysexIndex |-> 167, name |-> "Current Unit Number", valueType |-> "Integer", minValue |-> 0, maxValue |-> 7,
     isTwosComplement |-> FALSE, displayOffset |-> 0, lookup |-> {}],
    [sysexIndex |-> 168, name |-> "Group Mode Enable", valueType |-> "Bool", minValue |-> 0, maxValue |-> 1,
     isTwosComplement |-> FALSE, displayOffset |-> 0, lookup |-> {}],
    [sysexIndex |-> 169, name |-> "Unison Enable", valueType |-> "Bool", minValue |-> 0, maxValue |-> 1,
     isTwosComplement |-> FALSE, displayOffset |-> 0, lookup |-> {}],
    [sysexIndex |-> 170, name |-> "Volume Invert Enable", valueType |-> "Bool", minValue |-> 0, maxValue |-> 1,
     isTwosComplement |-> FALSE, displayOffset |-> 0, lookup |-> {}],
    [sysexIndex |-> 171, name |-> "Memory Protect Enable", valueType |-> "Bool", minValue |-> 0, maxValue |-> 1,
     isTwosComplement |-> FALSE, displayOffset |-> 0, lookup |-> {}]
>>

initGlobalSettingsOneMore == [i \in 1..(Len(kMatrix1000GlobalSettings) + 1) |-> <<>>]

\* Matrix1000::initGlobalSettings: one value per row, still void
initGlobalSettings == [i \in 1..Len(kMatrix1000GlobalSettings) |-> <<>>]

settingsIdle ==
    /\ globalSettings_ = initGlobalSettings
    /\ dataFile = <<>>
    /\ settingsArray = <<>>
    /\ logged = FALSE

(***************************************************************************)
(* Bit arithmetic on non-negative integers                                 *)
(***************************************************************************)
RECURSIVE BitOr(_, _)
BitOr(a, b) ==
    IF a = 0 THEN b
    ELSE IF b = 0 THEN a
    ELSE (IF a % 2 = 1 \/ b % 2 = 1 THEN 1 ELSE 0) + 2 * BitOr(a \div 2, b \div 2)

RECURSIVE Pow2(_)
Pow2(n) == IF n = 0 THEN 1 ELSE 2 * Pow2(n - 1)

\* x ^ (1 << bit) on a byte
FlipBitOf(x, bit) ==
    IF (x \div Pow2(bit)) % 2 = 1 THEN x - Pow2(bit) ELSE x + Pow2(bit)

RECURSIVE SumSeq(_)
SumSeq(s) == IF s = <<>> THEN 0 ELSE s[1] + SumSeq(Tail(s))

(***************************************************************************)
(* Matrix1000::escapeSysex                                                 *)
(***************************************************************************)
\* programEditBuffer[i] & 0x0f
lowNibble(b) == b % 16

highNibbleUnshifted(b) == b - (b % 16)

\* (programEditBuffer[i] & 0xf0) >> 4
highNibble(b) == (b - (b % 16)) \div 16

escapeChecksumMask8(checksum) == checksum % 256

\* checksum & 0x7f
escapeChecksum(checksum) == checksum % 128

\* one pass of the for loop of escapeSysex; st holds i, checksum and result
escapeStep(buf, st) ==
    IF ~(st.i < Len(buf)) THEN st
    ELSE [i        |-> st.i + 1,
          checksum |-> st.checksum + buf[st.i + 1],
          result   |-> st.result \o << lowNibble(buf[st.i + 1]), highNibble(buf[st.i + 1]) >>]

\* n passes of the loop, taken in two halves; the test on half.i makes TLC
\* finish the first half before it starts the second
RECURSIVE escapeLoop(_, _, _)
escapeLoop(buf, st, n) ==
    IF n = 0 THEN st
    ELSE IF n = 1 THEN escapeStep(buf, st)
    ELSE LET half == escapeLoop(buf, st, n \div 2)
         IN  IF half.i >= 0 THEN escapeLoop(buf, half, n - (n \div 2)) ELSE half

escapeSysex(buf) ==
    LET end == escapeLoop(buf, [i |-> 0, checksum |-> 0, result |-> <<>>], Len(buf))
    IN  Append(end.result, escapeChecksum(end.checksum))

(***************************************************************************)
(* Matrix1000::unescapeSysex.  index is the zero based index of the code;  *)
(* a read at or behind sysExLen is outside the buffer and yields oob.      *)
(***************************************************************************)
dataAt(data, sysExLen, index, oob) ==
    IF index < sysExLen THEN data[index + 1] ELSE oob

unescapeByteUntruncated(lo, hi) == BitOr(lo, hi * 16)

\* uint8 byte = sysExData[index] | sysExData[index + 1] << 4
unescapeByte(lo, hi) == BitOr(lo, hi * 16) % 256

\* sysExData[index] != (checksum & 0x7f)
checksumDiffers(stored, checksum) == stored # checksum % 128

\* one pass of the for loop of unescapeSysex; st holds index, checksum and
\* result, and returned once the function has left through the return
\* inside the loop
unescapeStep(data, sysExLen, oob, st) ==
    IF st.returned \/ ~(st.index < sysExLen) THEN st
    ELSE LET byte == unescapeByte(dataAt(data, sysExLen, st.index, oob),
                                  dataAt(data, sysExLen, st.index + 1, oob))
             res  == Append(st.result, byte)
             sum  == (st.checksum + byte) % 256
             next == st.index + 2
         IN  IF next = sysExLen - 1
             THEN IF checksumDiffers(dataAt(data, sysExLen, next, oob), sum)
                  THEN [index |-> next, checksum |-> sum, result |-> <<>>, returned |-> TRUE]
                  ELSE [index |-> next + 1, checksum |-> sum, result |-> res, returned |-> FALSE]
             ELSE [index |-> next, checksum |-> sum, result |-> res, returned |-> FALSE]

\* n passes of the loop, taken in two halves; the test on half.index makes
\* TLC finish the first half before it starts the second
RECURSIVE unescapeLoop(_, _, _, _, _)
unescapeLoop(data, sysExLen, oob, st, n) ==
    IF n = 0 THEN st
    ELSE IF n = 1 THEN unescapeStep(data, sysExLen, oob, st)
    ELSE LET half == unescapeLoop(data, sysExLen, oob, st, n \div 2)
         IN  IF half.index >= 0
             THEN unescapeLoop(data, sysExLen, oob, half, n - (n \div 2))
             ELSE half

\* the loop runs at most once per two bytes of the buffer
unescapeSysex(data, sysExLen, oob) ==
    unescapeLoop(data, sysExLen, oob,
                 [index |-> 0, checksum |-> 0, result |-> <<>>, returned |-> FALSE],
                 (sysExLen + 1) \div 2).result

(***************************************************************************)
(* The codec as a state machine                                            *)
(***************************************************************************)
InitCodec ==
    /\ programEditBuffer \in SeqsUpTo(ByteSamples, MaxLen)
    /\ sysExData = <<>>
    /\ result = <<>>
    /\ flip = <<>>
    /\ pc = "start"
    /\ bankIdle
    /\ classifyIdle
    /\ requestIdle
    /\ settingsIdle
    /\ detectIdle
    /\ patchIdle
    /\ fileIdle

\* the driver packs a patch for the wire
Escape ==
    /\ pc = "start"
    /\ sysExData' = escapeSysex(programEditBuffer)
    /\ pc' = "escaped"
    /\ UNCHANGED <<programEditBuffer, result, flip>>
    /\ UNCHANGED notCodec

\* the transport damages one bit of the packed buffer
FlipBit ==
    /\ pc = "escaped"
    /\ flip = <<>>
    /\ \E i \in 1..Len(sysExData), bit \in BitPositions :
         /\ sysExData' = [sysExData EXCEPT ![i] = FlipBitOf(sysExData[i], bit)]
         /\ flip' = <<i, bit>>
    /\ UNCHANGED <<programEditBuffer, result, pc>>
    /\ UNCHANGED notCodec

\* an arbitrary buffer arrives from the transport
Receive ==
    /\ pc = "start"
    /\ programEditBuffer = <<>>
    /\ \E w \in SeqsUpTo(WireSamples, MaxWireLen) : sysExData' = w
    /\ pc' = "received"
    /\ UNCHANGED <<programEditBuffer, result, flip>>
    /\ UNCHANGED notCodec

\* the driver unpacks the buffer
Unescape ==
    /\ pc \in {"escaped", "received"}
    /\ \E oob \in OobSamples :
         result' = unescapeSysex(sysExData, Len(sysExData), oob)
    /\ pc' = IF pc = "escaped" THEN "unescaped" ELSE "unpacked"
    /\ UNCHANGED <<programEditBuffer, sysExData, flip>>
    /\ UNCHANGED notCodec

NextCodec == Escape \/ FlipBit \/ Receive \/ Unescape


SpecCodec == InitCodec /\ [][NextCodec]_vars

(***************************************************************************)
(* The message classifier.  A message is [sysex, data]: data is the SysEx  *)
(* payload without the 0xF0/0xF7 framing (MidiMessage::getSysExData).      *)
(***************************************************************************)
sysexMessage(bytes) == [sysex |-> TRUE, data |-> bytes]

\* Matrix1000::isOwnSysex
isOwnSysex(m) ==
    /\ m.sysex
    /\ Len(m.data) > 1
    /\ m.data[1] = OBERHEIM
    /\ m.data[2] = MATRIX6_1000

\* Matrix1000::isEditBufferDump
isEditBufferDump(m) ==
    /\ isOwnSysex(m)
    /\ Len(m.data) > 3
    /\ m.data[3] = SINGLE_PATCH_DATA
    /\ m.data[4] = 0

isSingleProgramDumpFromOne(m) ==
    /\ isOwnSysex(m)
    /\ Len(m.data) > 3
    /\ m.data[3] = SINGLE_PATCH_DATA
    /\ m.data[4] > 0
    /\ m.data[4] < 100

\* Matrix1000::isSingleProgramDump
isSingleProgramDump(m) ==
    /\ isOwnSysex(m)
    /\ Len(m.data) > 3
    /\ m.data[3] = SINGLE_PATCH_DATA
    /\ m.data[4] >= 0
    /\ m.data[4] < 100

\* Matrix1000::isBankDump
isBankDump(m) == isSingleProgramDump(m)

\* one pass of the for loop of isBankDumpFinished; st holds the position i
\* in bankDump and found
foundStep(dump, st) ==
    IF ~(st.i < Len(dump)) THEN st
    ELSE [i     |-> st.i + 1,
          found |-> IF isSingleProgramDump(dump[st.i + 1]) THEN st.found + 1 ELSE st.found]

\* n passes of the loop, taken in two halves; the test on half.i makes TLC
\* finish the first half before it starts the second
RECURSIVE countFound(_, _, _)
countFound(dump, st, n) ==
    IF n = 0 THEN st
    ELSE IF n = 1 THEN foundStep(dump, st)
    ELSE LET half == countFound(dump, st, n \div 2)
         IN  IF half.i >= 0 THEN countFound(dump, half, n - (n \div 2)) ELSE half

\* Matrix1000::isBankDumpFinished
isBankDumpFinished(dump) ==
    countFound(dump, [i |-> 0, found |-> 0], Len(dump)).found = numberOfPatches

InitClassify ==
    /\ message \in [sysex : BOOLEAN, data : SeqsUpTo(ClassifyBytes, MaxMsgLen)]
    /\ kinds = {}
    /\ codecIdle
    /\ bankIdle
    /\ requestIdle
    /\ settingsIdle
    /\ detectIdle
    /\ patchIdle
    /\ fileIdle

\* the predicates of the driver are evaluated on the message
Classify ==
    /\ kinds = {}
    /\ kinds' = {"checked"}
              \cup (IF isOwnSysex(message) THEN {"OwnSysex"} ELSE {})
              \cup (IF isEditBufferDump(message) THEN {"EditBufferDump"} ELSE {})
              \cup (IF isSingleProgramDump(message) THEN {"SingleProgramDump"} ELSE {})
              \cup (IF isBankDump(message) THEN {"BankDump"} ELSE {})
    /\ UNCHANGED message
    /\ UNCHANGED notClassify

NextClassify == Classify

SpecClassify == InitClassify /\ [][NextClassify]_vars

(***************************************************************************)
(* Collecting a bank dump: the device answers the bank request with one    *)
(* single program dump per program of the bank                             *)
(***************************************************************************)
\* the single program dump the device sends for programNo (one byte of patch data)
programDump(programNo) ==
    sysexMessage(<<OBERHEIM, MATRIX6_1000, SINGLE_PATCH_DATA, programNo>>
                 \o escapeSysex(<<programNo>>))

\* messages that are no single program dump: a dump with program byte 100,
\* a patch sent to the edit buffer, a message that is no SysEx
ForeignMessages ==
    { sysexMessage(<<OBERHEIM, MATRIX6_1000, SINGLE_PATCH_DATA, 100, 0>>),
      sysexMessage(<<OBERHEIM, MATRIX6_1000, SINGLE_PATCH_TO_EDIT_BUFFER, 0, 0>>),
      [sysex |-> FALSE, data |-> <<>>] }

InitBank ==
    /\ bankDump = <<>>
    /\ order \in DumpFirsts \X DumpSteps
    /\ sent = 0
    /\ extra = 0
    /\ codecIdle
    /\ classifyIdle
    /\ requestIdle
    /\ settingsIdle
    /\ detectIdle
    /\ patchIdle
    /\ fileIdle

\* the next program of the bank arrives
ProgramDumpArrives ==
    /\ sent < numberOfPatches
    /\ bankDump' = Append(bankDump, programDump((order[1] + order[2] * sent) % 100))
    /\ sent' = sent + 1
    /\ UNCHANGED <<order, extra>>
    /\ UNCHANGED notBank

\* the device resends, or the line echoes, the message received last
Resend ==
    /\ extra < MaxExtra
    /\ sent \in ExtraPoints
    /\ Len(bankDump) > 0
    /\ bankDump' = Append(bankDump, bankDump[Len(bankDump)])
    /\ extra' = extra + 1
    /\ UNCHANGED <<order, sent>>
    /\ UNCHANGED notBank

\* a message that is no single program dump arrives in between
ForeignArrives ==
    /\ extra < MaxExtra
    /\ sent \in ExtraPoints
    /\ \E m \in ForeignMessages : bankDump' = Append(bankDump, m)
    /\ extra' = extra + 1
    /\ UNCHANGED <<order, sent>>
    /\ UNCHANGED notBank

NextBank == ProgramDumpArrives \/ Resend \/ ForeignArrives

SpecBank == InitBank /\ [][NextBank]_vars

(***************************************************************************)
(* The request builders                                                    *)
(***************************************************************************)
\* the program numbers, banks and channels handed to the builders
ProgramNumberSamples == (0 - MaxOver)..(999 + MaxOver)
ChannelSamples == (0 - 1)..17
invalidBank == [valid |-> FALSE, zeroBased |-> 0 - 1]
\* MidiBankNumber::fromZeroBase (MidiKraft base library): a valid bank number
fromZeroBase(bank) == [valid |-> TRUE, zeroBased |-> bank]
BankSamples == {invalidBank} \cup {fromZeroBase(b) : b \in 0..(numberOfBanks + 1)}

\* integer division and remainder of C, truncating towards zero
cDiv(a, b) == IF a >= 0 THEN a \div b ELSE 0 - ((0 - a) \div b)
cRem(a, b) == a - b * cDiv(a, b)
\* the cast (uint8)
uint8(x) == x % 256

\* juce::MidiMessage(): an empty SysEx message
emptyMidiMessage == [sysex |-> TRUE, data |-> <<>>]

\* Matrix1000::createRequest
createRequest(typeNo, number) ==
    sysexMessage(<<OBERHEIM, MATRIX6_1000, REQUEST_DATA, uint8(typeNo),
                   uint8(IF typeNo = SINGLE_PATCH THEN number ELSE 0)>>)

\* Matrix1000::createBankSelect
createBankSelect(bankNo) ==
    IF ~bankNo.valid THEN emptyMidiMessage
    ELSE sysexMessage(<<OBERHEIM, MATRIX6_1000, SET_BANK, uint8(bankNo.zeroBased)>>)

\* Matrix1000::createBankUnlock
createBankUnlock == sysexMessage(<<OBERHEIM, MATRIX6_1000, BANK_UNLOCK>>)

\* Matrix1000::requestEditBufferDump
requestEditBufferDump == createRequest(EDIT_BUFFER, 0)

\* jassert(programNumber >= 0 && programNumber < 1000) holds
programNumberAsserted(programNumber) == programNumber >= 0 /\ programNumber < 1000

saveEditBufferToProgramSwapped(programNumber) ==
    LET bank == uint8(cDiv(programNumber, 100))
        num  == uint8(cRem(programNumber, 100))
    IN  sysexMessage(<<OBERHEIM, MATRIX6_1000, STORE_EDIT_BUFFER, bank, num, 0>>)

\* Matrix1000::saveEditBufferToProgram
saveEditBufferToProgram(programNumber) ==
    LET bank == uint8(cDiv(programNumber, 100))
        num  == uint8(cRem(programNumber, 100))
    IN  sysexMessage(<<OBERHEIM, MATRIX6_1000, STORE_EDIT_BUFFER, num, bank, 0>>)

requestPatchRequestFirst(programNumber) ==
    LET bank == uint8(cDiv(programNumber, 100))
    IN  << createRequest(SINGLE_PATCH, uint8(programNumber)),
           createBankSelect(fromZeroBase(bank)),
           createBankUnlock >>

\* Matrix1000::requestPatch
requestPatch(programNumber) ==
    LET bank == uint8(cDiv(programNumber, 100))
    IN  << createBankSelect(fromZeroBase(bank)),
           createBankUnlock,
           createRequest(SINGLE_PATCH, uint8(programNumber)) >>

\* Matrix1000::requestBankDump
requestBankDump(bankNo) ==
    IF ~bankNo.valid THEN <<>>
    ELSE << createBankSelect(bankNo), createRequest(BANK_AND_MASTER, 0) >>

\* Matrix1000::deviceDetect
deviceDetect(channel) == sysexMessage(<<126, uint8(channel), 6, 1>>)

InitRequest ==
    /\ requestIdle
    /\ codecIdle
    /\ bankIdle
    /\ classifyIdle
    /\ settingsIdle
    /\ detectIdle
    /\ patchIdle
    /\ fileIdle

RequestEditBufferDump ==
    /\ call' = [op |-> "requestEditBufferDump", arg |-> 0]
    /\ messages' = <<requestEditBufferDump>>
    /\ asserted' = FALSE
    /\ UNCHANGED notRequest

SaveEditBufferToProgram ==
    /\ \E programNumber \in ProgramNumberSamples :
         /\ call' = [op |-> "saveEditBufferToProgram", arg |-> programNumber]
         /\ messages' = <<saveEditBufferToProgram(programNumber)>>
         /\ asserted' = ~programNumberAsserted(programNumber)
    /\ UNCHANGED notRequest

RequestPatch ==
    /\ \E programNumber \in ProgramNumberSamples :
         /\ call' = [op |-> "requestPatch", arg |-> programNumber]
         /\ messages' = requestPatch(programNumber)
         /\ asserted' = ~programNumberAsserted(programNumber)
    /\ UNCHANGED notRequest

RequestBankDump ==
    /\ \E bankNo \in BankSamples :
         /\ call' = [op |-> "requestBankDump", arg |-> bankNo]
         /\ messages' = requestBankDump(bankNo)
         /\ asserted' = FALSE
    /\ UNCHANGED notRequest

DeviceDetect ==
    /\ \E channel \in ChannelSamples :
         /\ call' = [op |-> "deviceDetect", arg |-> channel]
         /\ messages' = <<deviceDetect(channel)>>
         /\ asserted' = FALSE
    /\ UNCHANGED notRequest

NextRequest ==
    \/ RequestEditBufferDump
    \/ SaveEditBufferToProgram
    \/ RequestPatch
    \/ RequestBankDump
    \/ DeviceDetect

SpecRequest == InitRequest /\ [][NextRequest]_vars

(***************************************************************************)
(* Decoding the global settings                                            *)
(***************************************************************************)
\* the cast (int8)
int8(x) == ((x + 128) % 256) - 128

settingValueAllSigned(block, i) ==
    LET def      == kMatrix1000GlobalSettings[i]
        intValue == block[def.sysexIndex + 1] + def.displayOffset
    IN  IF intValue > 127 THEN int8(intValue) ELSE intValue

\* intValue of row i (one based) for the unescaped block
settingValue(block, i) ==
    LET def      == kMatrix1000GlobalSettings[i]
        intValue == block[def.sysexIndex + 1] + def.displayOffset
    IN  IF def.isTwosComplement /\ intValue > 127 THEN int8(intValue) ELSE intValue

blockSizeAtLeast(size) == size >= SettingsBlockSize

\* settingsArray.size() == 172
blockSizeAccepted(size) == size = SettingsBlockSize

\* the values after Matrix1000::setGlobalSettingsFromDataFile
settingsAfter(settings, block) ==
    IF blockSizeAccepted(Len(block))
    THEN [i \in 1..Len(kMatrix1000GlobalSettings) |->
            IF i - 1 < Len(block) THEN <<settingValue(block, i)>> ELSE settings[i]]
    ELSE settings

\* a settings block of the given size: zero but for Master Transpose (34),
\* Master Tune (8), MIDI Basic Channel (11) and Vibrato Waveform (4)
settingsBlock(size, transpose, tune, channel, waveform) ==
    [i \in 1..size |->
        CASE i = 35 -> transpose
          [] i = 9  -> tune
          [] i = 12 -> channel
          [] i = 5  -> waveform
          [] OTHER  -> 0]

\* the data files given to the driver: packed settings blocks of 172 bytes
GoodDataFiles ==
    { escapeSysex(settingsBlock(SettingsBlockSize, t, u, c, w)) :
        t \in {0, 128, 254}, u \in {0, 224}, c \in {15, 200}, w \in {0, 7} }

\* the packed buffer with its checksum byte damaged
badChecksum(wire) == [wire EXCEPT ![Len(wire)] = (wire[Len(wire)] + 1) % 128]

\* packed blocks of another size, a block with a wrong checksum, no data
BadDataFiles ==
    { escapeSysex(settingsBlock(n, 254, 0, 0, 0)) : n \in {0, 1, 171, 173} }
    \cup { badChecksum(escapeSysex(settingsBlock(SettingsBlockSize, 254, 224, 15, 7))),
           <<>> }

InitSettings ==
    /\ settingsIdle
    /\ detectIdle
    /\ patchIdle
    /\ fileIdle
    /\ codecIdle
    /\ bankIdle
    /\ classifyIdle
    /\ requestIdle

\* Matrix1000::setGlobalSettingsFromDataFile
SetGlobalSettingsFromDataFile ==
    /\ \E data \in GoodDataFiles \cup BadDataFiles, oob \in OobSamples :
         LET block == unescapeSysex(data, Len(data), oob)
         IN  /\ dataFile' = data
             /\ settingsArray' = block
             /\ globalSettings_' = settingsAfter(globalSettings_, block)
             /\ logged' = ~blockSizeAccepted(Len(block))
    /\ UNCHANGED notSettings

NextSettings == SetGlobalSettingsFromDataFile

SpecSettings == InitSettings /\ [][NextSettings]_vars

(***************************************************************************)
(* Device detection: the answer to the device inquiry                      *)
(***************************************************************************)
\* the channels a device reports in byte 1 of its answer
DeviceChannels == {0, 5, 15}

\* a device inquiry answer with channel, family member and two of the four
\* revision bytes as given
inquiryResponse(channel, member, rev9, rev12) ==
    <<126, channel, 6, 2, OBERHEIM, MATRIX6_1000, 0, member, 0, rev9, 0, 0, rev12>>

WellFormedResponses ==
    {inquiryResponse(channel, member, rev9, rev12) :
        channel \in DeviceChannels, member \in {0, 2, 7}, rev9 \in {0, 49}, rev12 \in {0, 48}}

\* one byte other than the channel replaced
DamagedResponses ==
    {[inquiryResponse(5, 2, 49, 48) EXCEPT ![p] = v] : p \in (1..13) \ {2}, v \in {0, 1, 127}}

\* answers cut short or one byte too long
MisSizedResponses ==
    {SubSeq(inquiryResponse(5, 2, 49, 48), 1, n) : n \in {0, 1, 2, 3, 12}}
        \cup {Append(inquiryResponse(5, 2, 49, 48), 0)}

ResponseSamples ==
    {sysexMessage(d) : d \in WellFormedResponses \cup DamagedResponses \cup MisSizedResponses}
        \cup {[sysex |-> FALSE, data |-> d] : d \in WellFormedResponses}

\* juce::MidiMessage::getSysExDataSize: 0 for a message that is no SysEx
getSysExDataSize(m) == IF m.sysex THEN Len(m.data) ELSE 0

\* MidiChannel::invalidChannel and MidiChannel::fromZeroBase (MidiKraft base
\* library)
invalidChannel == [valid |-> FALSE, zeroBased |-> 0 - 1]
channelFromZeroBase(channel) == [valid |-> TRUE, zeroBased |-> channel]

channelIfValidDeviceResponseMemberChecked(m) ==
    IF getSysExDataSize(m) < 3 THEN invalidChannel
    ELSE IF /\ getSysExDataSize(m) = 13
            /\ m.data[1] = 126
            /\ m.data[3] = 6
            /\ m.data[4] = 2
            /\ m.data[5] = OBERHEIM
            /\ m.data[6] = MATRIX6_1000
            /\ m.data[7] = 0
            /\ m.data[8] = 2
            /\ m.data[9] = 0
         THEN channelFromZeroBase(m.data[2])
         ELSE invalidChannel

\* Matrix1000::channelIfValidDeviceResponse; data[k] of the code is
\* m.data[k + 1]
channelIfValidDeviceResponse(m) ==
    IF getSysExDataSize(m) < 3 THEN invalidChannel
    ELSE IF /\ getSysExDataSize(m) = 13
            /\ m.data[1] = 126
            /\ m.data[3] = 6
            /\ m.data[4] = 2
            /\ m.data[5] = OBERHEIM
            /\ m.data[6] = MATRIX6_1000
            /\ m.data[7] = 0
            /\ m.data[9] = 0
         THEN channelFromZeroBase(m.data[2])
         ELSE invalidChannel

InitDetect ==
    /\ response \in ResponseSamples
    /\ channelFound = <<>>
    /\ codecIdle
    /\ bankIdle
    /\ classifyIdle
    /\ requestIdle
    /\ settingsIdle
    /\ patchIdle
    /\ fileIdle

\* the framework hands the answer to the driver
ChannelIfValidDeviceResponse ==
    /\ channelFound = <<>>
    /\ channelFound' = <<channelIfValidDeviceResponse(response)>>
    /\ UNCHANGED response
    /\ UNCHANGED notDetect

NextDetect == ChannelIfValidDeviceResponse

SpecDetect == InitDetect /\ [][NextDetect]_vars

(***************************************************************************)
(* The patch name: Matrix1000Patch::setName                                *)
(***************************************************************************)
\* char asciiResult[20]
AsciiCapacity == 20

\* the bytes names are made of: the substitution character, a capital and
\* a small letter, DEL, a control character, space, '_' and '`'
NameBytes == {26, 65, 97, 127, 31, 32, 95, 96}

\* a name of n bytes
longName(n) ==
    [i \in 1..n |-> <<97, 26, 31, 65, 127, 96, 95, 32>>[((i - 1) % 8) + 1]]

LongNameLengths == {7, 8, 9, 19, 20, 21, 22}

NameSamples ==
    SeqsUpTo(NameBytes, MaxNameLen) \cup {longName(n) : n \in LongNameLengths}

\* the name bytes of a patch as received: "BNK0: 00", and a factory patch
\* that holds the letters as their one based number in the alphabet
InitialNames ==
    {<<66, 78, 75, 48, 58, 32, 48, 48>>, <<2, 1, 19, 19, 32, 32, 32, 32>>}

\* ucnv_convert("US-ASCII", "UTF-8", asciiResult, 20, ...) of the ICU
\* library for a name that is ASCII already: the bytes are copied, the
\* length of the whole result is returned, and a result longer than the
\* buffer is the error U_BUFFER_OVERFLOW_ERROR
ucnv_convert(name) ==
    [length      |-> Len(name),
     asciiResult |-> SubSeq(name, 1, IF Len(name) < AsciiCapacity THEN Len(name) ELSE AsciiCapacity),
     error       |-> IF Len(name) > AsciiCapacity THEN "U_BUFFER_OVERFLOW_ERROR"
                     ELSE IF Len(name) = AsciiCapacity THEN "U_STRING_NOT_TERMINATED_WARNING"
                     ELSE "U_ZERO_ERROR"]

\* U_SUCCESS: warnings are successes
U_SUCCESS(error) == error # "U_BUFFER_OVERFLOW_ERROR"

\* the byte setName stores at position i (zero based)
nameByte(conv, i) ==
    IF i < conv.length
    THEN LET c == conv.asciiResult[i + 1]
         IN  IF c = 26 THEN 64
             ELSE IF c > 95 THEN c - 32
             ELSE IF c < 32 THEN 95
             ELSE c
    ELSE 32

\* Matrix1000Patch::setName: the name bytes after the call
setName(old, name) ==
    LET conv == ucnv_convert(name)
    IN  IF U_SUCCESS(conv.error) THEN [i \in 1..8 |-> nameByte(conv, i - 1)] ELSE old

InitPatch ==
    /\ patchName \in InitialNames
    /\ nameArg = <<>>
    /\ named = FALSE
    /\ codecIdle
    /\ bankIdle
    /\ classifyIdle
    /\ requestIdle
    /\ settingsIdle
    /\ detectIdle
    /\ fileIdle

\* the user renames the patch
SetName ==
    /\ \E name \in NameSamples :
         /\ nameArg' = name
         /\ patchName' = setName(patchName, name)
    /\ named' = TRUE
    /\ UNCHANGED notPatch

NextPatch == SetName

SpecPatch == InitPatch /\ [][NextPatch]_vars

(***************************************************************************)
(* Writing a patch as a message and reading the message back               *)
(***************************************************************************)
\* the program numbers of the patches written
PatchNumberSamples == {0, 42, 99, 100, 150, 999}

\* Matrix1000::patchToSysex
patchToSysex(p) ==
    << sysexMessage(<<OBERHEIM, MATRIX6_1000, SINGLE_PATCH_TO_EDIT_BUFFER, 0>>
                    \o escapeSysex(p.data)) >>

\* Matrix1000::patchToProgramDumpSysex
patchToProgramDumpSysex(p) ==
    LET programNo == uint8(cRem(p.number, 100))
    IN  << sysexMessage(<<OBERHEIM, MATRIX6_1000, SINGLE_PATCH_DATA, programNo>>
                        \o escapeSysex(p.data)) >>

\* unescapeSysex(&message.getSysExData()[4], message.getSysExDataSize() - 4)
unescapePatchData(m, oob) ==
    unescapeSysex(SubSeq(m.data, 5, Len(m.data)), Len(m.data) - 4, oob)

\* Matrix1000::patchFromSysex; found is FALSE when the jassert fails and
\* the patch returned is empty
patchFromSysex(m, oob) ==
    IF ~isEditBufferDump(m)
    THEN [op |-> "patchFromSysex", found |-> FALSE, data |-> <<>>, number |-> 0 - 1]
    ELSE [op |-> "patchFromSysex", found |-> TRUE,
          data |-> unescapePatchData(m, oob), number |-> 0 - 1]

\* Matrix1000::patchFromProgramDumpSysex; found is FALSE for nullptr
patchFromProgramDumpSysex(m, oob) ==
    IF isSingleProgramDump(m)
    THEN [op |-> "patchFromProgramDumpSysex", found |-> TRUE,
          data |-> unescapePatchData(m, oob), number |-> m.data[4]]
    ELSE [op |-> "patchFromProgramDumpSysex", found |-> FALSE, data |-> <<>>, number |-> 0 - 1]

InitFile ==
    /\ patch \in [data : SeqsUpTo(ByteSamples, MaxLen), number : PatchNumberSamples]
    /\ written = nothingWritten
    /\ readBack = nothingRead
    /\ codecIdle
    /\ bankIdle
    /\ classifyIdle
    /\ requestIdle
    /\ settingsIdle
    /\ detectIdle
    /\ patchIdle

\* the patch is written for the edit buffer
PatchToSysex ==
    /\ written = nothingWritten
    /\ written' = [op |-> "patchToSysex", messages |-> patchToSysex(patch)]
    /\ UNCHANGED <<patch, readBack>>
    /\ UNCHANGED notFile

\* the patch is written as a program dump
PatchToProgramDumpSysex ==
    /\ written = nothingWritten
    /\ written' = [op |-> "patchToProgramDumpSysex", messages |-> patchToProgramDumpSysex(patch)]
    /\ UNCHANGED <<patch, readBack>>
    /\ UNCHANGED notFile

\* the message written is read as an edit buffer dump
PatchFromSysex ==
    /\ written # nothingWritten
    /\ readBack = nothingRead
    /\ \E oob \in OobSamples : readBack' = patchFromSysex(written.messages[1], oob)
    /\ UNCHANGED <<patch, written>>
    /\ UNCHANGED notFile

\* the message written is read as a program dump
PatchFromProgramDumpSysex ==
    /\ written # nothingWritten
    /\ readBack = nothingRead
    /\ \E oob \in OobSamples : readBack' = patchFromProgramDumpSysex(written.messages[1], oob)
    /\ UNCHANGED <<patch, written>>
    /\ UNCHANGED notFile

NextFile ==
    \/ PatchToSysex
    \/ PatchToProgramDumpSysex
    \/ PatchFromSysex
    \/ PatchFromProgramDumpSysex

SpecFile == InitFile /\ [][NextFile]_vars

(***************************************************************************)
(* Properties of the codec                                                 *)
(***************************************************************************)
Unpacked == pc \in {"unescaped", "unpacked"}

\* C1: unescapeSysex(escapeSysex(b)) = b for every non-empty byte sequence b
RoundTrip ==
    (pc = "unescaped" /\ flip = <<>> /\ Len(programEditBuffer) > 0)
        => result = programEditBuffer

RoundTripWitness ==
    /\ pc = "unescaped"
    /\ flip = <<>>
    /\ Len(programEditBuffer) = 2
    /\ programEditBuffer[1] = 255
    /\ programEditBuffer[2] = 128
    /\ result = programEditBuffer

\* the bytes rebuilt from the complete nibble pairs in front of the trailing byte
RECURSIVE pairsBefore(_, _)
pairsBefore(w, k) ==
    IF k + 2 > Len(w) - 1 THEN <<>>
    ELSE <<BitOr(w[k + 1], 16 * w[k + 2]) % 256>> \o pairsBefore(w, k + 2)

\* C2: a wire buffer whose trailing byte differs from (sum of the
\* reconstructed bytes) & 0x7F is rejected, the result is empty
ChecksumAlwaysVerified ==
    (Unpacked /\ Len(sysExData) > 0
       /\ sysExData[Len(sysExData)] # SumSeq(pairsBefore(sysExData, 0)) % 128)
        => result = <<>>

\* C3: a wire buffer of even length yields no decoded bytes
EvenLengthRejected ==
    (Unpacked /\ Len(sysExData) % 2 = 0) => result = <<>>

\* C4 as stated: after any single bit flip of the packed buffer, unescapeSysex
\* reports the checksum mismatch (never a byte sequence, right or wrong)
AnyBitFlipRejected ==
    (pc = "unescaped" /\ flip # <<>>) => result = <<>>

\* C4 amended: for non-empty b the flipped buffer is rejected when the flip
\* hits the checksum byte or changes one of bits 0..6 of the rebuilt byte;
\* b itself is returned when the flip leaves the rebuilt byte as it was (bits
\* 4..7 of a high nibble byte are shifted out, a bit 4..7 of a low nibble byte
\* is absorbed when the high nibble already sets it); b with bit 7 of one
\* byte changed is returned when only bit 7 of the rebuilt byte changes (bit
\* 3 of a high nibble byte, bit 7 of the low nibble byte of a byte < 0x80)
BitFlipOutcome ==
    (pc = "unescaped" /\ flip # <<>> /\ Len(programEditBuffer) > 0) =>
        LET i     == flip[1]
            bit   == flip[2]
            k     == (i + 1) \div 2
            b     == programEditBuffer
            isSet == (b[k] \div Pow2(bit)) % 2 = 1
            wrong == [b EXCEPT ![k] = FlipBitOf(b[k], 7)]
        IN  IF i = Len(sysExData) THEN result = <<>>
            ELSE IF i % 2 = 1
                 THEN IF bit <= 3 THEN result = <<>>
                      ELSE IF isSet THEN result = b
                      ELSE IF bit = 7 THEN result = wrong
                      ELSE result = <<>>
                 ELSE IF bit <= 2 THEN result = <<>>
                      ELSE IF bit = 3 THEN result = wrong
                      ELSE result = b

BitFlipWitness ==
    /\ pc = "unescaped"
    /\ flip = <<2, 3>>
    /\ programEditBuffer = <<65>>
    /\ result = <<193>>

(***************************************************************************)
(* Properties of the bank dump completion test                             *)
(***************************************************************************)
\* the program number a message carries when it has the wire form of a
\* single program dump (10H 06H 01H <program 0..99> <data>), else -1
programOf(m) ==
    IF m.sysex /\ Len(m.data) > 3 /\ SubSeq(m.data, 1, 3) = <<16, 6, 1>>
       /\ m.data[4] \in 0..99
    THEN m.data[4] ELSE 0 - 1

\* the program numbers of the single program dumps of a stream
distinctPrograms(dump) ==
    {programOf(dump[i]) : i \in 1..Len(dump)} \ {0 - 1}

\* every message is a single program dump and no program number repeats
distinctDumpsOnly(dump) ==
    /\ \A i \in 1..Len(dump) : programOf(dump[i]) >= 0
    /\ Cardinality(distinctPrograms(dump)) = Len(dump)

\* C5: a stream of single program dumps with pairwise distinct program
\* numbers is complete exactly when it holds all of 0..99, so the 100 dumps
\* of a permutation are complete and no proper prefix is
PermutationCompletes ==
    distinctDumpsOnly(bankDump) =>
        (isBankDumpFinished(bankDump) <=> distinctPrograms(bankDump) = 0..99)

PermutationCompletesWitness ==
    /\ distinctDumpsOnly(bankDump)
    /\ Len(bankDump) = 100
    /\ order = <<42, 7>>
    /\ distinctPrograms(bankDump) = 0..99
    /\ isBankDumpFinished(bankDump)

\* C6: one program number twice, then the 99 remaining program numbers:
\* the stream is complete
DuplicateDoesNotBlock ==
    ( /\ Len(bankDump) = 101
      /\ \A i \in 1..Len(bankDump) : programOf(bankDump[i]) >= 0
      /\ bankDump[1] = bankDump[2]
      /\ distinctPrograms(bankDump) = 0..99 )
        => isBankDumpFinished(bankDump)

\* C7: a stream with fewer than 100 distinct program numbers is not complete
FewerThanAllNeverComplete ==
    Cardinality(distinctPrograms(bankDump)) < 100 => ~isBankDumpFinished(bankDump)

(***************************************************************************)
(* Properties of the classifier                                            *)
(***************************************************************************)
\* the kinds of the classification that hold of the classified message
kindsHolding ==
    (IF "OwnSysex" \in kinds /\ "EditBufferDump" \notin kinds
        /\ "SingleProgramDump" \notin kinds THEN {"OwnSysexUnclassified"} ELSE {})
    \cup (IF "EditBufferDump" \in kinds THEN {"EditBufferDump"} ELSE {})
    \cup (IF "SingleProgramDump" \in kinds THEN {"SingleProgramDump"} ELSE {})
    \cup (IF "OwnSysex" \notin kinds THEN {"Unrecognized"} ELSE {})

\* C8: exactly one kind holds of every payload, in particular never both
\* isEditBufferDump and isSingleProgramDump
ExactlyOneKind ==
    "checked" \in kinds => Cardinality(kindsHolding) = 1

(***************************************************************************)
(* Properties of the request builders                                      *)
(***************************************************************************)
\* the argument of the last call is outside the range of its kind
argumentOutOfRange ==
    CASE call.op \in {"saveEditBufferToProgram", "requestPatch"}
            -> call.arg \notin 0..999
      [] call.op = "requestBankDump"
            -> ~call.arg.valid \/ call.arg.zeroBased \notin 0..(numberOfBanks - 1)
      [] call.op = "deviceDetect"
            -> call.arg \notin 0..15
      [] OTHER -> FALSE

\* C9: a request builder given a bank, program number or channel outside
\* its range emits no message
OutOfRangeEmitsNothing ==
    argumentOutOfRange => messages = <<>>

(***************************************************************************)
(* Properties of the settings decode                                       *)
(***************************************************************************)
\* C10: a load whose unescaped block is not 172 bytes long posts the
\* "Ignoring" message and leaves every global setting as it was
WrongSizeChangesNothing ==
    [][Len(settingsArray') # 172 => (globalSettings_' = globalSettings_ /\ logged')]_vars

WrongSizeWitness ==
    /\ Len(settingsArray) = 173
    /\ logged
    /\ globalSettings_[1] = <<0 - 2>>
    /\ globalSettings_[3] = <<16>>

\* the last load decoded a block of 172 bytes
Decoded == Len(settingsArray) = 172

\* the byte of the decoded block at a zero based offset
blockByte(offset) == settingsArray[offset + 1]

\* C11: Master Transpose (offset 34) and Master Tune (offset 8) decode a
\* byte v > 127 to v - 256 and v <= 127 to v; every other row decodes to
\* block[offset] + displayOffset without sign reinterpretation
SignOnlyForTwoRows ==
    Decoded =>
        \A i \in 1..Len(kMatrix1000GlobalSettings) :
            LET def == kMatrix1000GlobalSettings[i]
                v   == blockByte(def.sysexIndex)
            IN  IF def.sysexIndex \in {34, 8}
                THEN globalSettings_[i] = <<IF v > 127 THEN v - 256 ELSE v>>
                ELSE globalSettings_[i] = <<v + def.displayOffset>>

SignOnlyForTwoRowsWitness ==
    /\ Decoded
    /\ blockByte(34) = 254 /\ globalSettings_[1] = <<0 - 2>>
    /\ blockByte(8) = 224 /\ globalSettings_[2] = <<0 - 32>>
    /\ blockByte(11) = 200 /\ globalSettings_[3] = <<201>>

\* C12: after a successful decode every value lies within the declared
\* [minValue, maxValue] of its row
ValuesWithinRange ==
    Decoded =>
        \A i \in 1..Len(kMatrix1000GlobalSettings) :
            /\ globalSettings_[i] # <<>>
            /\ globalSettings_[i][1] >= kMatrix1000GlobalSettings[i].minValue
            /\ globalSettings_[i][1] <= kMatrix1000GlobalSettings[i].maxValue

\* C13: the value stored for a lookup row is always one of the raw values
\* of the row's choice list, an unmapped raw value is never stored
UnmappedNeverStored ==
    \A i \in 1..Len(kMatrix1000GlobalSettings) :
        (kMatrix1000GlobalSettings[i].valueType = "Lookup" /\ globalSettings_[i] # <<>>)
            => globalSettings_[i][1] \in kMatrix1000GlobalSettings[i].lookup

\* every row reads one byte at its own offset inside the 172 byte block
rowsReadOwnOffsets ==
    /\ \A i \in 1..Len(kMatrix1000GlobalSettings) :
          kMatrix1000GlobalSettings[i].sysexIndex \in 0..171
    /\ \A i, j \in 1..Len(kMatrix1000GlobalSettings) :
          i # j => kMatrix1000GlobalSettings[i].sysexIndex # kMatrix1000GlobalSettings[j].sysexIndex

\* C14 as stated: the driver holds 28 settings, one per table row, each row
\* reading one byte at its own offset in 0..171
TableHas28Rows ==
    /\ Len(globalSettings_) = 28
    /\ Len(kMatrix1000GlobalSettings) = 28
    /\ rowsReadOwnOffsets

\* C14 amended: the driver holds 27 settings, one per table row, each row
\* reading one byte at its own offset in 0..171
TableHas27Rows ==
    /\ Len(globalSettings_) = 27
    /\ Len(kMatrix1000GlobalSettings) = 27
    /\ rowsReadOwnOffsets

TableHas27RowsWitness ==
    /\ Decoded
    /\ Len(globalSettings_) = 27
    /\ kMatrix1000GlobalSettings[27].sysexIndex = 171
    /\ globalSettings_[27] = <<0>>
    /\ globalSettings_[14] = <<7>>


(***************************************************************************)
(* The wire format and the request builders                                *)
(***************************************************************************)
Escaped == pc = "escaped" /\ flip = <<>>

\* C15: escapeSysex of N bytes yields 2N+1 wire bytes: per input byte, in
\* order, its low four bits and then its high four bits, and one trailing
\* byte, the sum of the input bytes in seven bits; every wire byte is below
\* 0x80
EscapedLayout ==
    Escaped =>
        LET N == Len(programEditBuffer)
        IN  /\ Len(sysExData) = 2 * N + 1
            /\ \A k \in 1..N :
                  /\ sysExData[2 * k - 1] = programEditBuffer[k] % 16
                  /\ sysExData[2 * k] = (programEditBuffer[k] \div 16) % 16
            /\ sysExData[2 * N + 1] = SumSeq(programEditBuffer) % 128
            /\ \A j \in 1..Len(sysExData) : sysExData[j] < 128

EscapedLayoutWitness ==
    /\ Escaped
    /\ programEditBuffer = <<65, 66>>
    /\ sysExData = <<1, 4, 2, 4, 3>>


InRange(op) == call.op = op /\ call.arg \in 0..999

\* C16: for every programNumber in [0,1000) saveEditBufferToProgram emits
\* [0x10, 0x06, 0x0E, slot, bank, 0] with bank = programNumber div 100 in
\* [0,10), slot = programNumber mod 100 in [0,100) and
\* bank * 100 + slot = programNumber
StoreSplitsBankAndSlot ==
    InRange("saveEditBufferToProgram") =>
        /\ Len(messages) = 1
        /\ messages[1].sysex
        /\ \E bank \in 0..9, slot \in 0..99 :
              /\ bank * 100 + slot = call.arg
              /\ bank = call.arg \div 100
              /\ slot = call.arg % 100
              /\ messages[1].data = <<16, 6, 14, slot, bank, 0>>

StoreSplitsBankAndSlotWitness ==
    /\ InRange("saveEditBufferToProgram")
    /\ call.arg = 999
    /\ messages[1].data = <<16, 6, 14, 99, 9, 0>>

\* the message is a data request, a bank select
isDataRequest(m) == Len(m.data) >= 3 /\ m.data[3] = 4
isBankSelectFor(m, bank) == m.sysex /\ m.data = <<16, 6, 10, bank>>

\* C19: for every programNumber in [0,1000) requestPatch returns three
\* messages: the bank select for bank programNumber div 100, the bank
\* unlock, the single patch data request; requestBankDump for a valid bank
\* returns the bank select and then the bank and master data request; no
\* data request stands before the bank select
BankSelectComesFirst ==
    /\ InRange("requestPatch") =>
          /\ Len(messages) = 3
          /\ isBankSelectFor(messages[1], call.arg \div 100)
          /\ messages[2].data = <<16, 6, 12>>
          /\ Len(messages[3].data) = 5
          /\ SubSeq(messages[3].data, 1, 4) = <<16, 6, 4, 1>>
    /\ (call.op = "requestBankDump" /\ call.arg.valid) =>
          /\ Len(messages) = 2
          /\ isBankSelectFor(messages[1], call.arg.zeroBased)
          /\ messages[2].data = <<16, 6, 4, 0, 0>>
    /\ call.op \in {"requestPatch", "requestBankDump"} =>
          \A i \in 1..Len(messages) :
              isDataRequest(messages[i]) =>
                  \E j \in 1..(i - 1) : Len(messages[j].data) = 4 /\ messages[j].data[3] = 10

BankSelectComesFirstWitness ==
    /\ InRange("requestPatch")
    /\ call.arg = 999
    /\ isBankSelectFor(messages[1], 9)
    /\ isDataRequest(messages[3])

\* C20: for every programNumber in [0,1000) the number byte of the single
\* patch data request of requestPatch is programNumber mod 100, a program
\* number in [0,100)
NumberByteIsSlot ==
    InRange("requestPatch") =>
        /\ messages[3].data[5] = call.arg % 100
        /\ messages[3].data[5] < 100


(***************************************************************************)
(* Properties of device detection and of the patch name                    *)
(***************************************************************************)
\* the message is a SysEx of 13 bytes with the fixed bytes of an answer
fixedBytesMatch(m) ==
    /\ m.sysex
    /\ Len(m.data) = 13
    /\ m.data[1] = 126
    /\ m.data[3] = 6
    /\ m.data[4] = 2
    /\ m.data[5] = 16
    /\ m.data[6] = 6
    /\ m.data[7] = 0
    /\ m.data[9] = 0

\* C17: channelIfValidDeviceResponse returns a channel exactly for a payload
\* of length 13 with payload[0] = 0x7E, payload[2] = 0x06, payload[3] = 0x02,
\* payload[4] = 0x10, payload[5] = 0x06, payload[6] = 0 and payload[8] = 0,
\* and the channel is payload[1]; every other payload yields the invalid
\* channel; bytes 7 and 9..12 have no influence
ChannelOnlyForInquiryAnswer ==
    channelFound # <<>> =>
        IF fixedBytesMatch(response)
        THEN channelFound[1].valid /\ channelFound[1].zeroBased = response.data[2]
        ELSE ~channelFound[1].valid

ChannelOnlyForInquiryAnswerWitness ==
    /\ channelFound # <<>>
    /\ response.sysex
    /\ response.data = <<126, 15, 6, 2, 16, 6, 0, 7, 0, 49, 0, 0, 48>>
    /\ channelFound[1].valid
    /\ channelFound[1].zeroBased = 15

\* the name byte the encoding rules give for position i (one based)
encoded(name, i) ==
    IF i > Len(name) THEN 32
    ELSE IF name[i] = 26 THEN 64
    ELSE IF name[i] > 95 THEN name[i] - 32
    ELSE IF name[i] < 32 THEN 95
    ELSE name[i]

\* C18: after setName of an ASCII name each of the 8 name bytes is the byte
\* of the name at its position under the rules, in this order: 0x1A gives
\* 0x40, a byte above 0x5F gives byte - 0x20, a byte below 0x20 gives 0x5F,
\* any other byte is kept, a position behind the name gives 0x20; every
\* name byte is in 0x20..0x5F
NameEncoded ==
    named => \A i \in 1..8 :
        /\ patchName[i] = encoded(nameArg, i)
        /\ patchName[i] >= 32
        /\ patchName[i] <= 95

\* the same for names that fit the conversion buffer
NameEncodedUpToCapacity ==
    (named /\ Len(nameArg) <= AsciiCapacity) => \A i \in 1..8 :
        /\ patchName[i] = encoded(nameArg, i)
        /\ patchName[i] >= 32
        /\ patchName[i] <= 95


(***************************************************************************)
(* Properties of a growing bank dump and of the patch messages             *)
(***************************************************************************)
\* C21: once isBankDumpFinished holds of the collected messages it holds
\* after any further message is appended, a repeated single program dump
\* included; a message that is no single program dump never changes it
CompletionStable ==
    [][ /\ isBankDumpFinished(bankDump) => isBankDumpFinished(bankDump')
        /\ ( /\ Len(bankDump') = Len(bankDump) + 1
             /\ programOf(bankDump'[Len(bankDump')]) < 0 )
               => (isBankDumpFinished(bankDump') <=> isBankDumpFinished(bankDump)) ]_vars


\* C22: the message of patchToSysex(p) satisfies isEditBufferDump and
\* patchFromSysex returns the data of p; the message of
\* patchToProgramDumpSysex(p) satisfies isSingleProgramDump and
\* patchFromProgramDumpSysex returns the data of p with the program number
\* of p mod 100
WrittenReadsBack ==
    /\ written.op = "patchToSysex" =>
          /\ isEditBufferDump(written.messages[1])
          /\ readBack.op = "patchFromSysex" =>
                (readBack.found /\ readBack.data = patch.data)
    /\ written.op = "patchToProgramDumpSysex" =>
          /\ isSingleProgramDump(written.messages[1])
          /\ readBack.op = "patchFromProgramDumpSysex" =>
                /\ readBack.found
                /\ readBack.data = patch.data
                /\ readBack.number = patch.number % 100

\* the program dump half alone, for a patch that has data
ProgramDumpReadsBack ==
    (written.op = "patchToProgramDumpSysex" /\ Len(patch.data) > 0) =>
          /\ isSingleProgramDump(written.messages[1])
          /\ readBack.op = "patchFromProgramDumpSysex" =>
                /\ readBack.found
                /\ readBack.data = patch.data
                /\ readBack.number = patch.number % 100

====
